---- MODULE Spec2Model ----
(***************************************************************************)
(* Model of unshredder.py: a raster is cut into vertical strips, every     *)
(* strip records its best left and right neighbour by border distance      *)
(* (FindNeighbors), the left edge is the first strip whose left neighbour  *)
(* does not point back at it (DetectLeftEdge), and the strips are pasted   *)
(* by following right-neighbour links (OrderStrips).                       *)
(*                                                                         *)
(* Strips are identified by their extraction position 0..N-1.  A pixel is  *)
(* a tuple of channel values, a border is the sequence of sampled pixels.  *)
(* The raster size is configuration: IMAGE_WIDTH and IMAGE_HEIGHT are      *)
(* chosen in Init so that small rasters can be enumerated.                 *)
(***************************************************************************)
EXTENDS Integers, Sequences, FiniteSets, TLC

\* Bounds of the enumerated inputs.
MaxStrips == 3
MaxVal == 1
MaxHeight == 3
MaxLen == 2

\* Program constants.
MAX == 10 ^ 9
STRIP_WIDTH == 32
SAMPLING_DISTANCE == 2

\* Python's None, and the marker of a raised AttributeError.
None == -1
AttributeError == -2

BORDERS == [l |-> 0, r |-> STRIP_WIDTH - 1]
Sides == {"l", "r"}

VARIABLES
  IMAGE_WIDTH,     \* raster width in pixels
  IMAGE_HEIGHT,    \* raster height in pixels
  border_pixels,   \* Strip._border_pixels: strip -> side -> sampled pixels
  neighbors,       \* Strip._neighbors: strip -> side -> strip or None
  min_distances,   \* Strip._min_distances: strip -> side -> distance
  pc,              \* position in main / in the GetDistance call
  strip,           \* FindNeighbors: outer loop variable
  inner_strip,     \* FindNeighbors: inner loop variable
  side,            \* FindNeighbors: which NeighborDistance call is next
  left_edge,       \* main: result of DetectLeftEdge
  chain_strip,     \* OrderStrips: the strip argument
  count,           \* OrderStrips: the count argument
  unshredded,      \* output raster: paste offset x -> strip image or None
  visited,         \* positions logged by OrderStrips, in order
  error,           \* exception that ended the run, "" when none
  pixels_a,        \* GetDistance: first argument
  pixels_b,        \* GetDistance: second argument
  distance         \* GetDistance: returned value

vars == <<IMAGE_WIDTH, IMAGE_HEIGHT, border_pixels, neighbors, min_distances,
          pc, strip, inner_strip, side, left_edge, chain_strip, count,
          unshredded, visited, error, pixels_a, pixels_b, distance>>

\* Number of strips: IMAGE_WIDTH / STRIP_WIDTH.
N == IMAGE_WIDTH \div STRIP_WIDTH
Strips == 0 .. (N - 1)

Abs(v) == IF v < 0 THEN 0 - v ELSE v

----------------------------------------------------------------------------
(* Raster, strip extraction and border sampling                            *)

\* A pixel with the given first channel; ch is the number of channels.
Pixel(red, other, ch) ==
  IF ch = 4 THEN <<red, other, other, 255>> ELSE <<red, other, other>>

\* Flattened row-major pixel data of a raster w wide and h high, as
\* Image.getdata() returns it.  cols gives, per strip and side, the first
\* channel of the border column; interior columns hold the filler value.
RasterData(cols, w, h, ch) ==
  [k \in 0 .. (w * h - 1) |->
     LET x  == k % w
         s  == x \div STRIP_WIDTH
         sx == x % STRIP_WIDTH
     IN  IF sx = BORDERS.l THEN Pixel(cols[s].l, 0, ch)
         ELSE IF sx = BORDERS.r THEN Pixel(cols[s].r, 0, ch)
         ELSE Pixel(0, 0, ch)]

\* Image._GetStrip: crop columns [x1, x1 + STRIP_WIDTH) of the raster.
GetStrip(data, w, h, strip_number) ==
  LET x1 == strip_number * STRIP_WIDTH
  IN  [k \in 0 .. (STRIP_WIDTH * h - 1) |->
         data[(k \div STRIP_WIDTH) * w + x1 + (k % STRIP_WIDTH)]]

\* Strip._GetPixelValue
GetPixelValue(image_data, x, y) == image_data[y * STRIP_WIDTH + x]

\* Strip._LoadBorder: sample column BORDERS[border] every SAMPLING_DISTANCE
\* rows while y < height.
RECURSIVE LoadBorderFrom(_, _, _, _)
LoadBorderFrom(image_data, h, border, sample_count) ==
  LET y == sample_count * SAMPLING_DISTANCE
  IN  IF y < h
      THEN <<GetPixelValue(image_data, BORDERS[border], y)>>
           \o LoadBorderFrom(image_data, h, border, sample_count + 1)
      ELSE <<>>

LoadBorder(image_data, h, border) == LoadBorderFrom(image_data, h, border, 0)

\* Strip.__init__ / _LoadBorderPixels, for every strip of Image.GetStrips.
GetStrips(data, w, h) ==
  [s \in 0 .. ((w \div STRIP_WIDTH) - 1) |->
     [b \in Sides |-> LoadBorder(GetStrip(data, w, h, s), h, b)]]

----------------------------------------------------------------------------
(* GetDistance                                                             *)

\* for j in range(len(a_rgb)-3): distance += abs(a_rgb[j] - b_rgb[j])
RECURSIVE ChannelDistance(_, _, _)
ChannelDistance(a_rgb, b_rgb, j) ==
  IF j >= Len(a_rgb) - 3 THEN 0
  ELSE Abs(a_rgb[j + 1] - b_rgb[j + 1]) + ChannelDistance(a_rgb, b_rgb, j + 1)

RECURSIVE PixelsDistance(_, _, _)
PixelsDistance(a, b, i) ==
  IF i >= Len(a) THEN 0
  ELSE ChannelDistance(a[i + 1], b[i + 1], 0) + PixelsDistance(a, b, i + 1)

\* Variant: every channel of the pixel contributes.
RECURSIVE AllChannelDistance(_, _, _)
AllChannelDistance(a_rgb, b_rgb, j) ==
  IF j >= Len(a_rgb) THEN 0
  ELSE Abs(a_rgb[j + 1] - b_rgb[j + 1]) + AllChannelDistance(a_rgb, b_rgb, j + 1)

RECURSIVE AllPixelsDistance(_, _, _)
AllPixelsDistance(a, b, i) ==
  IF i >= Len(a) THEN 0
  ELSE AllChannelDistance(a[i + 1], b[i + 1], 0) + AllPixelsDistance(a, b, i + 1)

GetDistanceAllChannels(a, b) == AllPixelsDistance(a, b, 0)

GetDistance(a, b) == PixelsDistance(a, b, 0)

----------------------------------------------------------------------------
(* Strip._NeighborDistance and its two callers                             *)

\* Variant: an equal score overwrites the recorded neighbour.
NeighborDistanceLastWins(nb, md, self, neighbor, edge, neighbor_edge) ==
  LET d == GetDistance(border_pixels[neighbor][neighbor_edge],
                       border_pixels[self][edge])
  IN  IF d <= md[self][edge]
      THEN [neighbors     |-> [nb EXCEPT ![self][edge] = neighbor],
            min_distances |-> [md EXCEPT ![self][edge] = d],
            distance      |-> d]
      ELSE [neighbors |-> nb, min_distances |-> md, distance |-> d]

\* Variant: the match is also recorded on the candidate's opposite side.
NeighborDistanceSymmetric(nb, md, self, neighbor, edge, neighbor_edge) ==
  LET d == GetDistance(border_pixels[neighbor][neighbor_edge],
                       border_pixels[self][edge])
  IN  IF d < md[self][edge]
      THEN [neighbors     |-> [nb EXCEPT ![self][edge] = neighbor,
                                         ![neighbor][neighbor_edge] = self],
            min_distances |-> [md EXCEPT ![self][edge] = d,
                                         ![neighbor][neighbor_edge] = d],
            distance      |-> d]
      ELSE [neighbors |-> nb, min_distances |-> md, distance |-> d]

\* The strip fields after self._NeighborDistance(neighbor, edge,
\* neighbor_edge), and the returned distance.
NeighborDistance(nb, md, self, neighbor, edge, neighbor_edge) ==
  LET d == GetDistance(border_pixels[neighbor][neighbor_edge],
                       border_pixels[self][edge])
  IN  IF d < md[self][edge]
      THEN [neighbors     |-> [nb EXCEPT ![self][edge] = neighbor],
            min_distances |-> [md EXCEPT ![self][edge] = d],
            distance      |-> d]
      ELSE [neighbors |-> nb, min_distances |-> md, distance |-> d]

NeighborDistanceRight(nb, md, self, neighbor) ==
  NeighborDistance(nb, md, self, neighbor, "r", "l")

\* Variant: the own left border is compared with the candidate's left border.
NeighborDistanceLeftSameEdge(nb, md, self, neighbor) ==
  NeighborDistance(nb, md, self, neighbor, "l", "l")

NeighborDistanceLeft(nb, md, self, neighbor) ==
  NeighborDistance(nb, md, self, neighbor, "l", "r")

----------------------------------------------------------------------------
(* DetectLeftEdge                                                          *)

\* The loop of DetectLeftEdge from strip k on.  The logging call reads
\* GetPosition() of both neighbours, which raises on None; falling off the
\* end of the loop returns None.
RECURSIVE DetectFrom(_, _)
DetectFrom(nb, k) ==
  IF k >= N THEN None
  ELSE IF nb[k].r = None \/ nb[k].l = None THEN AttributeError
  ELSE IF nb[nb[k].l].r = k THEN DetectFrom(nb, k + 1)
  ELSE k

\* Variant: the scan keeps the last strip without a match.
RECURSIVE DetectLastFrom(_, _, _)
DetectLastFrom(nb, k, found) ==
  IF k >= N THEN found
  ELSE IF nb[k].r = None \/ nb[k].l = None THEN AttributeError
  ELSE IF nb[nb[k].l].r = k THEN DetectLastFrom(nb, k + 1, found)
  ELSE DetectLastFrom(nb, k + 1, k)

DetectLeftEdgeLast(nb) == DetectLastFrom(nb, 0, None)

DetectLeftEdge(nb) == DetectFrom(nb, 0)

----------------------------------------------------------------------------
(* Initial states                                                          *)

\* Pil.new('RGBA', size): nothing pasted at any slot offset.
BlankImage(w) == [x \in {k * STRIP_WIDTH : k \in 0 .. ((w \div STRIP_WIDTH) - 1)} |-> None]

NoNeighbors(n) == [s \in 0 .. (n - 1) |-> [b \in Sides |-> None]]
NoDistances(n) == [s \in 0 .. (n - 1) |-> [b \in Sides |-> MAX]]

\* The pair FindNeighbors compares after (i, j): row-major over
\* strips x strips, skipping strip == inner_strip; <<n, 0>> when exhausted.
RECURSIVE Advance(_, _, _)
Advance(n, i, j) ==
  IF i >= n THEN <<n, 0>>
  ELSE IF j + 1 >= n THEN Advance(n, i + 1, -1)
  ELSE IF j + 1 = i THEN Advance(n, i, j + 1)
  ELSE <<i, j + 1>>

\* State of main after img.GetStrips() for a raster of n strips.
Loaded(n, h, strips) ==
  /\ IMAGE_WIDTH = n * STRIP_WIDTH
  /\ IMAGE_HEIGHT = h
  /\ border_pixels = strips
  /\ neighbors = NoNeighbors(n)
  /\ min_distances = NoDistances(n)
  /\ pc = "find"
  /\ strip = Advance(n, 0, -1)[1]
  /\ inner_strip = Advance(n, 0, -1)[2]
  /\ side = "r"
  /\ left_edge = None
  /\ chain_strip = None
  /\ count = 0
  /\ unshredded = BlankImage(n * STRIP_WIDTH)
  /\ visited = <<>>
  /\ error = ""
  /\ pixels_a = <<>>
  /\ pixels_b = <<>>
  /\ distance = 0

\* Any raster of 1..MaxStrips strips, one row or MaxHeight rows high, of 3
\* or 4 channels, whose border columns are vertically uniform with first
\* channel in 0..MaxVal.
Init ==
  \E n \in 1 .. MaxStrips, h \in {1, MaxHeight}, ch \in {3, 4} :
    \E cols \in [0 .. (n - 1) -> [Sides -> 0 .. MaxVal]] :
      Loaded(n, h, GetStrips(RasterData(cols, n * STRIP_WIDTH, h, ch),
                             n * STRIP_WIDTH, h))

----------------------------------------------------------------------------
(* Actions of main                                                         *)

FindNeighborsRight ==
  /\ pc = "find"
  /\ strip < N
  /\ side = "r"
  /\ LET res == NeighborDistanceRight(neighbors, min_distances, strip, inner_strip)
     IN  /\ neighbors' = res.neighbors
         /\ min_distances' = res.min_distances
  /\ side' = "l"
  /\ UNCHANGED <<IMAGE_WIDTH, IMAGE_HEIGHT, border_pixels, pc, strip,
                 inner_strip, left_edge, chain_strip, count, unshredded,
                 visited, error, pixels_a, pixels_b, distance>>

FindNeighborsLeft ==
  /\ pc = "find"
  /\ strip < N
  /\ side = "l"
  /\ LET res == NeighborDistanceLeft(neighbors, min_distances, strip, inner_strip)
     IN  /\ neighbors' = res.neighbors
         /\ min_distances' = res.min_distances
  /\ side' = "r"
  /\ strip' = Advance(N, strip, inner_strip)[1]
  /\ inner_strip' = Advance(N, strip, inner_strip)[2]
  /\ UNCHANGED <<IMAGE_WIDTH, IMAGE_HEIGHT, border_pixels, pc, left_edge,
                 chain_strip, count, unshredded, visited, error, pixels_a,
                 pixels_b, distance>>

FindNeighborsReturn ==
  /\ pc = "find"
  /\ strip >= N
  /\ pc' = "detect"
  /\ UNCHANGED <<IMAGE_WIDTH, IMAGE_HEIGHT, border_pixels, neighbors,
                 min_distances, strip, inner_strip, side, left_edge,
                 chain_strip, count, unshredded, visited, error, pixels_a,
                 pixels_b, distance>>

\* left_edge = DetectLeftEdge(strips), then the first call
\* OrderStrips(unshredded, left_edge, 0).
DetectLeftEdgeCall ==
  /\ pc = "detect"
  /\ LET res == DetectLeftEdge(neighbors)
     IN  IF res = AttributeError
         THEN /\ pc' = "error"
              /\ error' = "AttributeError"
              /\ UNCHANGED <<left_edge, chain_strip>>
         ELSE /\ pc' = "order"
              /\ left_edge' = res
              /\ chain_strip' = res
              /\ UNCHANGED error
  /\ count' = 0
  /\ UNCHANGED <<IMAGE_WIDTH, IMAGE_HEIGHT, border_pixels, neighbors,
                 min_distances, strip, inner_strip, side, unshredded,
                 visited, pixels_a, pixels_b, distance>>

\* Variant: the chain is followed through the left-neighbour links.
OrderStripsLeftLinks ==
  /\ pc = "order"
  /\ LET x == count * STRIP_WIDTH
     IN  IF x >= IMAGE_WIDTH
         THEN /\ pc' = "save"
              /\ UNCHANGED <<chain_strip, count, unshredded, visited, error>>
         ELSE IF chain_strip = None
         THEN /\ pc' = "error"
              /\ error' = "AttributeError"
              /\ UNCHANGED <<chain_strip, count, unshredded, visited>>
         ELSE /\ visited' = Append(visited, chain_strip)
              /\ unshredded' = [unshredded EXCEPT ![x] = chain_strip]
              /\ chain_strip' = neighbors[chain_strip].l
              /\ count' = count + 1
              /\ UNCHANGED <<pc, error>>
  /\ UNCHANGED <<IMAGE_WIDTH, IMAGE_HEIGHT, border_pixels, neighbors,
                 min_distances, strip, inner_strip, side, left_edge,
                 pixels_a, pixels_b, distance>>

\* Variant: the recursion stops only once x exceeds the image width.
OrderStripsOneMore ==
  /\ pc = "order"
  /\ LET x == count * STRIP_WIDTH
     IN  IF x > IMAGE_WIDTH
         THEN /\ pc' = "save"
              /\ UNCHANGED <<chain_strip, count, unshredded, visited, error>>
         ELSE IF chain_strip = None
         THEN /\ pc' = "error"
              /\ error' = "AttributeError"
              /\ UNCHANGED <<chain_strip, count, unshredded, visited>>
         ELSE /\ visited' = Append(visited, chain_strip)
              /\ unshredded' = [k \in DOMAIN unshredded \cup {x} |->
                                  IF k = x THEN chain_strip ELSE unshredded[k]]
              /\ chain_strip' = neighbors[chain_strip].r
              /\ count' = count + 1
              /\ UNCHANGED <<pc, error>>
  /\ UNCHANGED <<IMAGE_WIDTH, IMAGE_HEIGHT, border_pixels, neighbors,
                 min_distances, strip, inner_strip, side, left_edge,
                 pixels_a, pixels_b, distance>>

\* One call of OrderStrips(image, strip, count): return the image once
\* x >= IMAGE_WIDTH, else log the position (raises on None), paste the strip
\* at (x, 0) and recurse on the right neighbour.
OrderStrips ==
  /\ pc = "order"
  /\ LET x == count * STRIP_WIDTH
     IN  IF x >= IMAGE_WIDTH
         THEN /\ pc' = "save"
              /\ UNCHANGED <<chain_strip, count, unshredded, visited, error>>
         ELSE IF chain_strip = None
         THEN /\ pc' = "error"
              /\ error' = "AttributeError"
              /\ UNCHANGED <<chain_strip, count, unshredded, visited>>
         ELSE /\ visited' = Append(visited, chain_strip)
              /\ unshredded' = [unshredded EXCEPT ![x] = chain_strip]
              /\ chain_strip' = neighbors[chain_strip].r
              /\ count' = count + 1
              /\ UNCHANGED <<pc, error>>
  /\ UNCHANGED <<IMAGE_WIDTH, IMAGE_HEIGHT, border_pixels, neighbors,
                 min_distances, strip, inner_strip, side, left_edge,
                 pixels_a, pixels_b, distance>>

\* unshredded.save('unshredded.jpg', 'JPEG')
Save ==
  /\ pc = "save"
  /\ pc' = "done"
  /\ UNCHANGED <<IMAGE_WIDTH, IMAGE_HEIGHT, border_pixels, neighbors,
                 min_distances, strip, inner_strip, side, left_edge,
                 chain_strip, count, unshredded, visited, error, pixels_a,
                 pixels_b, distance>>

Next ==
  \/ FindNeighborsRight
  \/ FindNeighborsLeft
  \/ FindNeighborsReturn
  \/ DetectLeftEdgeCall
  \/ OrderStrips
  \/ Save

Spec == Init /\ [][Next]_vars

----------------------------------------------------------------------------
(* The four solid-colour strips                                            *)

Red == <<255, 0, 0>>
Green == <<0, 255, 0>>
Blue == <<0, 0, 255>>
Yellow == <<255, 255, 0>>
Colours == {Red, Green, Blue, Yellow}

WithAlpha(rgb, ch) == IF ch = 4 THEN rgb \o <<255>> ELSE rgb

\* Flattened pixel data of a raster whose strip s is filled with order[s+1].
SolidRasterData(order, w, h, ch) ==
  [k \in 0 .. (w * h - 1) |-> WithAlpha(order[((k % w) \div STRIP_WIDTH) + 1], ch)]

ColourOrders == {o \in [1 .. 4 -> Colours] : \A i, j \in 1 .. 4 : o[i] = o[j] => i = j}

\* The four colours in any extraction order, as RGB or RGBA pixels.
InitColours ==
  \E order \in ColourOrders, h \in 1 .. MaxHeight, ch \in {3, 4} :
    Loaded(4, h, GetStrips(SolidRasterData(order, 4 * STRIP_WIDTH, h, ch),
                           4 * STRIP_WIDTH, h))

SpecColours == InitColours /\ [][Next]_vars

----------------------------------------------------------------------------
(* GetDistance on its own                                                  *)

PixelSet(ch) == {Pixel(red, other, ch) : red \in 0 .. MaxVal, other \in {0, MaxVal}}

\* Two border sequences of equal length, of 3- or 4-channel pixels.
InitDistance ==
  \E ch \in {3, 4}, len \in 0 .. MaxLen :
    \E a \in [1 .. len -> PixelSet(ch)], b \in [1 .. len -> PixelSet(ch)] :
      /\ pixels_a = a
      /\ pixels_b = b
      /\ distance = 0
      /\ pc = "call"
      /\ IMAGE_WIDTH = 0
      /\ IMAGE_HEIGHT = 0
      /\ border_pixels = <<>>
      /\ neighbors = <<>>
      /\ min_distances = <<>>
      /\ strip = 0
      /\ inner_strip = 0
      /\ side = "r"
      /\ left_edge = None
      /\ chain_strip = None
      /\ count = 0
      /\ unshredded = <<>>
      /\ visited = <<>>
      /\ error = ""

GetDistanceCall ==
  /\ pc = "call"
  /\ distance' = GetDistance(pixels_a, pixels_b)
  /\ pc' = "returned"
  /\ UNCHANGED <<IMAGE_WIDTH, IMAGE_HEIGHT, border_pixels, neighbors,
                 min_distances, strip, inner_strip, side, left_edge,
                 chain_strip, count, unshredded, visited, error, pixels_a,
                 pixels_b>>

NextDistance == GetDistanceCall

SpecDistance == InitDistance /\ [][NextDistance]_vars

----------------------------------------------------------------------------
(* OrderStrips on its own                                                  *)

\* OrderStrips(image, start, 0) on a blank image, over any right-neighbour
\* links in which every strip has a right neighbour other than itself.
InitOrder ==
  \E n \in 2 .. MaxStrips :
    \E links \in [0 .. (n - 1) -> 0 .. (n - 1)], start \in 0 .. (n - 1) :
      /\ \A s \in 0 .. (n - 1) : links[s] # s
      /\ IMAGE_WIDTH = n * STRIP_WIDTH
      /\ IMAGE_HEIGHT = 1
      /\ border_pixels = GetStrips(RasterData([s \in 0 .. (n - 1) |-> [b \in Sides |-> 0]],
                                              n * STRIP_WIDTH, 1, 4),
                                   n * STRIP_WIDTH, 1)
      /\ neighbors = [s \in 0 .. (n - 1) |-> [b \in Sides |-> links[s]]]
      /\ min_distances = [s \in 0 .. (n - 1) |-> [b \in Sides |-> 0]]
      /\ pc = "order"
      /\ strip = n
      /\ inner_strip = 0
      /\ side = "r"
      /\ left_edge = start
      /\ chain_strip = start
      /\ count = 0
      /\ unshredded = BlankImage(n * STRIP_WIDTH)
      /\ visited = <<>>
      /\ error = ""
      /\ pixels_a = <<>>
      /\ pixels_b = <<>>
      /\ distance = 0

NextOrder ==
  \/ OrderStrips
  \/ Save

\* The program is sequential: a call that can run does run.
SpecOrder == InitOrder /\ [][NextOrder]_vars /\ WF_vars(NextOrder)

----------------------------------------------------------------------------
(* Vocabulary of the properties                                            *)

MinOf(S) == CHOOSE m \in S : \A x \in S : m <= x

Opposite(e) == IF e = "l" THEN "r" ELSE "l"

\* Distance between a's border on side e and b's opposite border.
Dist(a, e, b) == GetDistance(border_pixels[b][Opposite(e)], border_pixels[a][e])

Others(a) == Strips \ {a}

BestDistance(a, e) == MinOf({Dist(a, e, b) : b \in Others(a)})

\* The first strip in extraction order that attains the minimum.
FirstBest(a, e) ==
  LET best == BestDistance(a, e)
  IN  MinOf({b \in Others(a) : Dist(a, e, b) = best})

MatchingDone == pc \in {"detect", "order", "save", "done", "error"}
DetectDone == pc \in {"order", "save", "done"}

AllMatched == \A s \in Strips : \A e \in Sides : neighbors[s][e] # None

\* Strips whose left neighbour's right neighbour is another strip.
BrokenSet == {s \in Strips : neighbors[s].l # None /\ neighbors[neighbors[s].l].r # s}

VisitedSet == {visited[k] : k \in 1 .. Len(visited)}

\* A true left-to-right order: p[k] is the strip at true position k.
TrueOrders == Permutations(Strips)

\* Every strip's true neighbour is its strictly closest border match.
WellSeparated(p) ==
  \A k \in 0 .. (N - 2) :
    LET A == p[k]
        B == p[k + 1]
    IN  /\ \A C \in Strips \ {A, B} : Dist(A, "r", B) < Dist(A, "r", C)
        /\ \A C \in Strips \ {A, B} : Dist(B, "l", A) < Dist(B, "l", C)

\* The leftmost strip's left border and the rightmost strip's right border
\* are each other's best match.
WrapAround(p) ==
  /\ FirstBest(p[0], "l") = p[N - 1]
  /\ FirstBest(p[N - 1], "r") = p[0]

TrueSequence(p) == [k \in 1 .. N |-> p[k - 1]]

----------------------------------------------------------------------------
(* Properties                                                              *)

\* C1 (as stated): whenever the pipeline has produced its output, the
\* visitation order is a permutation of 0..N-1: N strips were visited and
\* every strip is among them.
C1_AlwaysPermutation ==
  pc = "done" => (Len(visited) = N /\ VisitedSet = Strips)

\* C1 (amended): for N >= 3 strips with a true order in which every strip's
\* true neighbour is its strictly closest border match, and whose leftmost
\* left border and rightmost right border are not each other's best match,
\* the pipeline raises no error and the visitation order is the true
\* left-to-right order, a permutation of 0..N-1.
C1_PermutationWhenWellSeparated ==
  (N >= 3 /\ pc \in {"error", "save", "done"}) =>
    \A p \in TrueOrders :
      (WellSeparated(p) /\ ~WrapAround(p)) =>
        /\ pc # "error"
        /\ pc \in {"save", "done"} => visited = TrueSequence(p)

\* C1 witness: a shuffled well-separated raster of at least 3 strips was
\* pasted in its true order.
C1_Witness ==
  /\ pc = "done"
  /\ N >= 3
  /\ \E p \in TrueOrders :
       /\ WellSeparated(p)
       /\ ~WrapAround(p)
       /\ p[0] # 0
       /\ visited = TrueSequence(p)

\* The input of the four-colour scenario: extraction order
\* [Blue, Red, Yellow, Green].
ColourOf(s) == SubSeq(border_pixels[s].l[1], 1, 3)
ScenarioInput ==
  /\ N = 4
  /\ ColourOf(0) = Blue
  /\ ColourOf(1) = Red
  /\ ColourOf(2) = Yellow
  /\ ColourOf(3) = Green
IsRGBA == Len(border_pixels[0].l[1]) = 4

C3_SingleStrip ==
  N = 1 =>
    /\ pc # "error"
    /\ pc \in {"order", "save", "done"} => left_edge = 0
    /\ pc = "done" => (visited = <<0>> /\ unshredded[0] = 0)

\* C4: after FindNeighbors, every strip's recorded minimum distance on each
\* side is the minimum over all other strips, and its recorded neighbour
\* is the first strip in extraction order attaining that minimum.
C4_MinimumFirstWins ==
  (MatchingDone /\ N >= 2) =>
    \A a \in Strips : \A e \in Sides :
      /\ min_distances[a][e] = BestDistance(a, e)
      /\ neighbors[a][e] = FirstBest(a, e)

\* C4 witness: matching is over and some strip had two candidates tied at
\* a non-zero minimum; the earlier one is recorded.
C4_Witness ==
  /\ pc = "detect"
  /\ \E a \in Strips : \E e \in Sides : \E b, c \in Others(a) :
       /\ b < c
       /\ Dist(a, e, b) = BestDistance(a, e)
       /\ Dist(a, e, c) = BestDistance(a, e)
       /\ BestDistance(a, e) > 0
       /\ neighbors[a][e] = b

\* C5 (as stated): on a chain of N >= 3 strips in which every strip's true
\* neighbour is its strictly closest border match, after FindNeighbors
\* exactly one strip breaks reciprocity, the true leftmost strip.
C5_ExactlyOneBroken ==
  (MatchingDone /\ N >= 3) =>
    \A p \in TrueOrders : WellSeparated(p) => BrokenSet = {p[0]}

\* C5 (amended): on such a chain exactly one strip breaks reciprocity, the
\* true leftmost strip, unless the leftmost strip's left border and the
\* rightmost strip's right border are each other's best match; then no
\* strip breaks reciprocity.
C5_OneBrokenUnlessWrapAround ==
  (MatchingDone /\ N >= 3) =>
    \A p \in TrueOrders :
      WellSeparated(p) =>
        IF WrapAround(p) THEN BrokenSet = {} ELSE BrokenSet = {p[0]}

\* C5 witness: a shuffled well-separated chain whose only broken strip is
\* the true leftmost one.
C5_Witness ==
  /\ pc = "detect"
  /\ N >= 3
  /\ \E p \in TrueOrders :
       /\ WellSeparated(p)
       /\ ~WrapAround(p)
       /\ p[0] # 0
       /\ BrokenSet = {p[0]}

\* C6 (as stated): when no strip breaks reciprocity, edge detection still
\* yields a strip of the strip set and the run goes on without error.
C6_ZeroBrokenProceeds ==
  (pc \in {"order", "save", "done", "error"} /\ N >= 1 /\ AllMatched
     /\ BrokenSet = {}) =>
    (left_edge \in Strips /\ pc # "error")

\* Sum over the samples of the absolute difference of the first channel.
RECURSIVE FirstChannelSum(_, _, _)
FirstChannelSum(a, b, i) ==
  IF i > Len(a) THEN 0
  ELSE Abs(a[i][1] - b[i][1]) + FirstChannelSum(a, b, i + 1)

\* C7 (as stated): for 3-channel and 4-channel pixels alike, GetDistance
\* returns the sum of the absolute first-channel differences.
C7_FirstChannelOnly ==
  pc = "returned" => distance = FirstChannelSum(pixels_a, pixels_b, 1)

\* C8: when at least one strip breaks reciprocity, DetectLeftEdge returns
\* the one with the lowest extraction index.
C8_FirstOffender ==
  (DetectDone /\ AllMatched /\ BrokenSet # {}) => left_edge = MinOf(BrokenSet)

\* C8 witness: several strips break reciprocity, the lowest is not strip 0,
\* and it was returned.
C8_Witness ==
  /\ pc = "order"
  /\ Cardinality(BrokenSet) >= 2
  /\ left_edge = MinOf(BrokenSet)
  /\ left_edge # 0

\* The strip reached from s after k right-neighbour links.
RECURSIVE Follow(_, _)
Follow(s, k) == IF k = 0 THEN s ELSE Follow(neighbors[s].r, k - 1)

C9_Placement ==
  /\ pc # "error"
  /\ error = ""
  /\ count <= N
  /\ Len(visited) = count
  /\ DOMAIN unshredded = {k * STRIP_WIDTH : k \in 0 .. (N - 1)}
  /\ \A k \in 0 .. (count - 1) :
       /\ visited[k + 1] = Follow(left_edge, k)
       /\ unshredded[k * STRIP_WIDTH] = visited[k + 1]
  /\ \A k \in count .. (N - 1) : unshredded[k * STRIP_WIDTH] = None
  /\ pc \in {"save", "done"} => count = N

\* C9: OrderStrips started with count 0 at any strip, over any links in
\* which every strip has a right neighbour, returns after placing exactly
\* N strips, the k-th strip of the chain in slot k, without error, also
\* when the chain closes into a cycle before all strips were visited.
C9_ExactlyNSlots == [] C9_Placement /\ <>(pc = "done")

\* C9 witness: the chain from the start strip cycled, all N slots are
\* filled and some strip was never placed.
C9_Witness ==
  /\ pc = "done"
  /\ N >= 3
  /\ Len(visited) = N
  /\ VisitedSet # Strips
  /\ \A k \in 0 .. (N - 1) : unshredded[k * STRIP_WIDTH] # None

\* C10: a comparison of strip A with a candidate changes at most A's
\* neighbour and minimum distance on the compared side; no step changes a
\* border sample; once matching is over no step changes a neighbour or a
\* minimum distance.
C10_Frame ==
  [][ /\ border_pixels' = border_pixels
      /\ (pc = "find" /\ strip < N) =>
           \A s \in Strips : \A e \in Sides :
             (s # strip \/ e # side) =>
               /\ neighbors'[s][e] = neighbors[s][e]
               /\ min_distances'[s][e] = min_distances[s][e]
      /\ (pc = "find" /\ strip >= N) =>
           (neighbors' = neighbors /\ min_distances' = min_distances)
      /\ MatchingDone =>
           (neighbors' = neighbors /\ min_distances' = min_distances)
    ]_vars

\* C10 witness: matching recorded neighbours for at least three strips and
\* the run went through edge detection and chain assembly to the save.
C10_Witness ==
  /\ pc = "done"
  /\ N >= 3
  /\ AllMatched
  /\ Len(visited) = N

====
